---------------------------- MODULE Spec2Model ----------------------------
(***************************************************************************)
(* Model of ion_functions/data/opt_functions.py: the OPTAA calibration     *)
(* functions opt_pd_calc, opt_tempsal_corr and opt_scatter_corr, the       *)
(* pipelines opt_beam_attenuation and opt_optical_absorption built on them *)
(* with opt_internal_temp, and opt_ocr507_irradiance.                      *)
(*                                                                         *)
(* Numbers.  The Python code computes in IEEE doubles.  The model computes *)
(* in exact rationals <<n, d>> (d > 0, lowest terms), so it describes the  *)
(* arithmetic the code performs up to floating-point rounding.  np.log is  *)
(* tabulated to three decimals on ratios of the small integers used as     *)
(* counts.  Sequences are 1-based: Python index i is index i+1 here.       *)
(*                                                                         *)
(* A call is one state machine run: the initial state holds the function   *)
(* name and its arguments (pc = "call"), the function's action computes    *)
(* what the call returns or raises (pc = "done").  tscor is the module's   *)
(* process-wide correction table, which every call finds as the calls      *)
(* before it left it.                                                      *)
(***************************************************************************)
EXTENDS Integers, Sequences, FiniteSets, TLC

VARIABLES pc, fn, args, ret, loc, tscor

vars == <<pc, fn, args, ret, loc, tscor>>

(***************************************************************************)
(* Bounds of the model.                                                    *)
(***************************************************************************)
MaxChan == 2      \* largest number of wavelength channels in an array
MaxBins == 3      \* largest number of temperature bins / table columns
MaxPackets == 2   \* largest number of data packets (rows) in a call

(***************************************************************************)
(* Exact rational arithmetic standing for float arithmetic.                *)
(***************************************************************************)
Abs(x) == IF x < 0 THEN -x ELSE x

RECURSIVE GCD(_, _)
GCD(a, b) == IF b = 0 THEN a ELSE GCD(b, a % b)

\* n/d in lowest terms; a zero denominator gives <<1,0>>, <<-1,0>> or <<0,0>>,
\* standing for the inf, -inf and nan numpy produces on a division by zero.
Q(n, d) ==
    IF d = 0
    THEN <<(IF n > 0 THEN 1 ELSE IF n < 0 THEN -1 ELSE 0), 0>>
    ELSE LET s == IF d < 0 THEN -1 ELSE 1
             g == GCD(Abs(n), Abs(d))
         IN  <<(s * n) \div g, (s * d) \div g>>

R(n) == <<n, 1>>

QAdd(a, b) == Q(a[1] * b[2] + b[1] * a[2], a[2] * b[2])
QSub(a, b) == Q(a[1] * b[2] - b[1] * a[2], a[2] * b[2])
QMul(a, b) == Q(a[1] * b[1], a[2] * b[2])
QDiv(a, b) == Q(a[1] * b[2], a[2] * b[1])
QLt(a, b) == a[1] * b[2] < b[1] * a[2]
QLe(a, b) == a[1] * b[2] <= b[1] * a[2]
QAbs(a) == <<Abs(a[1]), a[2]>>
Zero == R(0)

\* np.log on the ratios of counts 1..4, to three decimals.
LnMilli == <<0, 693, 1099, 1386>>
Ln(q) == Q(LnMilli[q[1]] - LnMilli[q[2]], 1000)

(***************************************************************************)
(* Outcome of a call: a returned value or a raised exception.  nums holds  *)
(* the numbers the exception's message is built from.                      *)
(***************************************************************************)
Return(v) == [kind |-> "return", exc |-> "none", what |-> "none",
              nums |-> <<>>, val |-> v]
Raise(e, w, n) == [kind |-> "raise", exc |-> e, what |-> w,
                   nums |-> n, val |-> <<>>]
NoRet == [kind |-> "none", exc |-> "none", what |-> "none",
          nums |-> <<>>, val |-> <<>>]

SetMax(S) == CHOOSE x \in S : \A y \in S : y <= x
SetMin(S) == CHOOSE x \in S : \A y \in S : x <= y

(***************************************************************************)
(* opt_pd_calc (lines 302-424).                                            *)
(***************************************************************************)
\* tarray.shape of a 2-D table given as a sequence of rows
NRows(tarray) == Len(tarray)
NCols(tarray) == Len(tarray[1])

\* The shape checks with a reference/signal message that carries both
\* lengths.
pd_shape_error_named(ref, sig, offset, tbins, tarray) ==
    LET nValues == Len(sig)
        tValues == Len(tbins)
        r == NRows(tarray)
        c == NCols(tarray)
    IN  IF Len(ref) # Len(sig)
        THEN Raise("ValueError", "ref_sig_length", <<Len(ref), Len(sig)>>)
        ELSE IF Len(offset) # nValues
        THEN Raise("ValueError", "offset_length", <<Len(offset), nValues>>)
        ELSE IF r # nValues
        THEN Raise("ValueError", "tarray_rows", <<r, nValues>>)
        ELSE IF c # tValues
        THEN Raise("ValueError", "tarray_cols", <<c, tValues>>)
        ELSE NoRet

\* lines 364-405: the four shape checks, in the order of the code.  NoRet
\* when none of them raises.
pd_shape_error(ref, sig, offset, tbins, tarray) ==
    LET nValues == Len(sig)
        tValues == Len(tbins)
        r == NRows(tarray)
        c == NCols(tarray)
    IN  IF Len(ref) # Len(sig)
        THEN Raise("ValueError", "ref_sig_length", <<>>)
        ELSE IF Len(offset) # nValues
        THEN Raise("ValueError", "offset_length", <<Len(offset), nValues>>)
        ELSE IF r # nValues
        THEN Raise("ValueError", "tarray_rows", <<r, nValues>>)
        ELSE IF c # tValues
        THEN Raise("ValueError", "tarray_cols", <<c, tValues>>)
        ELSE NoRet

\* The first search with <= in place of <: a bin equal to tintrn counts as
\* below it.
BelowIdxOrEqual(tbins, tintrn) ==
    {i \in 1..Len(tbins) : QLe(QSub(tbins[i], tintrn), Zero)}

\* np.nonzero(tbins-tintrn < 0)[0]: the indexes of the bins below tintrn
BelowIdx(tbins, tintrn) ==
    {i \in 1..Len(tbins) : QLt(QSub(tbins[i], tintrn), Zero)}

\* The second search with <= in place of <: a bin equal to tintrn counts as
\* above it.
AboveIdxOrEqual(tbins, tintrn) ==
    {i \in 1..Len(tbins) : QLe(QSub(tintrn, tbins[i]), Zero)}

\* np.nonzero(tintrn-tbins < 0)[0]: the indexes of the bins above tintrn
AboveIdx(tbins, tintrn) ==
    {i \in 1..Len(tbins) : QLt(QSub(tintrn, tbins[i]), Zero)}

\* A bracket search that extrapolates from the end bins instead of raising.
pd_brackets_extrap(tbins, tintrn) ==
    LET lo == BelowIdx(tbins, tintrn)
        hi == AboveIdx(tbins, tintrn)
        n  == Len(tbins)
    IN  IF lo = {}
        THEN IF n < 2 THEN [raised |-> "ind1", ind1 |-> 0, ind2 |-> 0]
                      ELSE [raised |-> "none", ind1 |-> 1, ind2 |-> 2]
        ELSE IF hi = {}
        THEN IF n < 2 THEN [raised |-> "ind2", ind1 |-> SetMax(lo), ind2 |-> 0]
                      ELSE [raised |-> "none", ind1 |-> n - 1, ind2 |-> n]
        ELSE [raised |-> "none", ind1 |-> SetMax(lo), ind2 |-> SetMin(hi)]

\* lines 409-410: ind1 is the last index of the first search, ind2 the first
\* index of the second; indexing an empty result raises IndexError.
pd_brackets(tbins, tintrn) ==
    LET lo == BelowIdx(tbins, tintrn)
        hi == AboveIdx(tbins, tintrn)
    IN  IF lo = {}
        THEN [raised |-> "ind1", ind1 |-> 0, ind2 |-> 0]
        ELSE IF hi = {}
        THEN [raised |-> "ind2", ind1 |-> SetMax(lo), ind2 |-> 0]
        ELSE [raised |-> "none", ind1 |-> SetMax(lo), ind2 |-> SetMin(hi)]

\* lines 411-417:
\* deltaT = dT0 + ((tintrn - T0) / (T1 - T0)) * (dT1 - dT0), per channel
deltaT(tintrn, tbins, tarray, i1, i2) ==
    LET T0 == tbins[i1]
        T1 == tbins[i2]
        frac == QDiv(QSub(tintrn, T0), QSub(T1, T0))
    IN  [w \in 1..Len(tarray) |->
            QAdd(tarray[w][i1],
                 QMul(frac, QSub(tarray[w][i2], tarray[w][i1])))]

\* line 422 with the pathlength used as a factor instead of a divisor
pd_formula_times_pathlength(ref, sig, offset, dT) ==
    [w \in 1..Len(sig) |->
        QSub(QSub(offset[w],
                  QMul(Q(25, 100), Ln(QDiv(sig[w], ref[w])))),
             dT[w])]

\* line 422: pd = (offset - (1./0.25) * np.log(sig/ref)) - deltaT
pd_formula(ref, sig, offset, dT) ==
    [w \in 1..Len(sig) |->
        QSub(QSub(offset[w],
                  QMul(QDiv(R(1), Q(25, 100)), Ln(QDiv(sig[w], ref[w])))),
             dT[w])]

\* lines 407-424: what the call does once the shape checks have passed
pd_body(ref, sig, offset, tintrn, tbins, tarray) ==
    LET b == pd_brackets(tbins, tintrn)
    IN  IF b.raised # "none"
        THEN Raise("IndexError", b.raised, <<>>)
        ELSE LET dT == deltaT(tintrn, tbins, tarray, b.ind1, b.ind2)
             IN  Return(<<pd_formula(ref, sig, offset, dT), dT>>)

\* The bracket search done ahead of the shape checks.
opt_pd_calc_brackets_first(ref, sig, offset, tintrn, tbins, tarray) ==
    LET e == pd_shape_error(ref, sig, offset, tbins, tarray)
        b == pd_brackets(tbins, tintrn)
    IN  IF b.raised # "none"
        THEN Raise("IndexError", b.raised, <<>>)
        ELSE IF e.kind = "raise" THEN e
        ELSE pd_body(ref, sig, offset, tintrn, tbins, tarray)

opt_pd_calc(ref, sig, offset, tintrn, tbins, tarray) ==
    LET e == pd_shape_error(ref, sig, offset, tbins, tarray)
    IN  IF e.kind = "raise" THEN e
        ELSE pd_body(ref, sig, offset, tintrn, tbins, tarray)

\* The locals ind1, ind2 of a call, as far as the call gets to assign them.
pd_locals(ref, sig, offset, tintrn, tbins, tarray) ==
    IF pd_shape_error(ref, sig, offset, tbins, tarray).kind = "raise"
    THEN [raised |-> "shape", ind1 |-> 0, ind2 |-> 0]
    ELSE pd_brackets(tbins, tintrn)

(***************************************************************************)
(* The temperature and salinity correction table tscor, imported on line   *)
(* 12 from opt_functions_tscor: a dictionary from wavelength (one decimal) *)
(* to the triple (temperature factor, salinity factor for 'c', salinity    *)
(* factor for 'a').  A three-entry table stands for it; the variable tscor *)
(* holds it from the import on.                                            *)
(***************************************************************************)
tscor_table ==
    (R(400) :> <<Q(1, 1000), Q(-2, 1000), Q(3, 1000)>>)
    @@ (Q(7005, 10) :> <<Q(2, 1000), Q(1, 1000), Q(-3, 1000)>>)
    @@ (R(715) :> <<Q(-5, 1000), Q(4, 1000), Q(-1, 1000)>>)

(***************************************************************************)
(* opt_tempsal_corr (lines 427-505).                                       *)
(***************************************************************************)
\* the positions of the wavelengths for which tscor[ii] raises KeyError
MissingKeys(wlngth) ==
    {i \in 1..Len(wlngth) : wlngth[i] \notin DOMAIN tscor}

\* The two branches with the salinity columns exchanged.
ts_apply_swapped(channel, pd, np_tscor, dT, PS) ==
    LET s == IF channel = "a" THEN 2 ELSE 3
    IN  [w \in 1..Len(pd) |->
            QSub(QSub(pd[w], QMul(dT, np_tscor[w][1])),
                 QMul(PS, np_tscor[w][s]))]

\* lines 498-501: 'a' uses np_tscor[:, 2], 'c' uses np_tscor[:, 1]
ts_apply(channel, pd, np_tscor, dT, PS) ==
    IF channel = "a"
    THEN [w \in 1..Len(pd) |->
            QSub(QSub(pd[w], QMul(dT, np_tscor[w][1])),
                 QMul(PS, np_tscor[w][3]))]
    ELSE [w \in 1..Len(pd) |->
            QSub(QSub(pd[w], QMul(dT, np_tscor[w][1])),
                 QMul(PS, np_tscor[w][2]))]

\* The channel validated ahead of the table lookup.
opt_tempsal_corr_channel_first(channel, pd, wlngth, tcal, T, PS) ==
    IF Len(pd) # Len(wlngth)
    THEN Raise("ValueError", "pd_wlngth_length", <<>>)
    ELSE IF channel \notin {"a", "c"}
    THEN Raise("ValueError", "channel", <<>>)
    ELSE IF MissingKeys(wlngth) # {}
    THEN Raise("KeyError", "tscor", <<wlngth[SetMin(MissingKeys(wlngth))]>>)
    ELSE Return(ts_apply(channel, pd,
                         [i \in 1..Len(wlngth) |-> tscor[wlngth[i]]],
                         QSub(T, tcal), PS))

\* A wavelength that is not in the table left uncorrected.
opt_tempsal_corr_skip_missing(channel, pd, wlngth, tcal, T, PS) ==
    IF Len(pd) # Len(wlngth)
    THEN Raise("ValueError", "pd_wlngth_length", <<>>)
    ELSE IF channel \notin {"a", "c"}
    THEN Raise("ValueError", "channel", <<>>)
    ELSE Return(ts_apply(channel, pd,
                         [i \in 1..Len(wlngth) |->
                             IF i \in MissingKeys(wlngth)
                             THEN <<Zero, Zero, Zero>>
                             ELSE tscor[wlngth[i]]],
                         QSub(T, tcal), PS))

opt_tempsal_corr(channel, pd, wlngth, tcal, T, PS) ==
    IF Len(pd) # Len(wlngth)
    THEN Raise("ValueError", "pd_wlngth_length", <<>>)
    ELSE IF MissingKeys(wlngth) # {}
    THEN Raise("KeyError", "tscor", <<wlngth[SetMin(MissingKeys(wlngth))]>>)
    ELSE LET np_tscor == [i \in 1..Len(wlngth) |-> tscor[wlngth[i]]]
             dT == QSub(T, tcal)
         IN  IF channel \in {"a", "c"}
             THEN Return(ts_apply(channel, pd, np_tscor, dT, PS))
             ELSE Raise("ValueError", "channel", <<>>)

(***************************************************************************)
(* opt_scatter_corr (lines 508-642).                                       *)
(***************************************************************************)
\* line 599
ref_scatter_leakage_min == Q(2, 100)

\* lines 603-617: the two length checks, in the order of the code
sc_shape_error(apd_ts, awlngth, cpd_ts, cwlngth) ==
    IF Len(apd_ts) # Len(awlngth)
    THEN Raise("ValueError", "apd_awlngth_length", <<>>)
    ELSE IF Len(cpd_ts) # Len(cwlngth)
    THEN Raise("ValueError", "cpd_cwlngth_length", <<>>)
    ELSE NoRet

\* line 508: the signature's rwlngth=715., used when the caller omits the
\* fifth argument (Omitted stands for the absent argument)
Omitted == <<>>
rwlngth_default == R(715)
sc_rwlngth(given) == IF given = Omitted THEN rwlngth_default ELSE given

\* argmin taken as the last index of the minimum
sc_idx_last(awlngth, rwlngth) ==
    SetMax({i \in 1..Len(awlngth) :
              \A j \in 1..Len(awlngth) :
                 QLe(QAbs(QSub(awlngth[i], rwlngth)),
                     QAbs(QSub(awlngth[j], rwlngth)))})

\* line 621: (np.abs(awlngth-rwlngth)).argmin(), the first index of the minimum
sc_idx(awlngth, rwlngth) ==
    SetMin({i \in 1..Len(awlngth) :
              \A j \in 1..Len(awlngth) :
                 QLe(QAbs(QSub(awlngth[i], rwlngth)),
                     QAbs(QSub(awlngth[j], rwlngth)))})

\* The first and the last segment continued beyond the ends of xp.
np_interp_extrapolated(x, xp, fp) ==
    LET n == Len(xp)
        line(j) == QAdd(QMul(QDiv(QSub(fp[j + 1], fp[j]),
                                  QSub(xp[j + 1], xp[j])),
                             QSub(x, xp[j])), fp[j])
    IN  IF n = 1 THEN fp[1]
        ELSE IF QLt(x, xp[1]) THEN line(1)
        ELSE IF QLe(xp[n], x) THEN line(n - 1)
        ELSE line(SetMax({i \in 1..n : QLe(xp[i], x)}))

\* np.interp(x, xp, fp) at one point x, for increasing xp: fp[0] below xp[0],
\* fp[-1] from xp[-1] on, else the line through the two neighbours
np_interp(x, xp, fp) ==
    LET n == Len(xp)
    IN  IF QLt(x, xp[1]) THEN fp[1]
        ELSE IF QLe(xp[n], x) THEN fp[n]
        ELSE LET j == SetMax({i \in 1..n : QLe(xp[i], x)})
                 slope == QDiv(QSub(fp[j + 1], fp[j]), QSub(xp[j + 1], xp[j]))
             IN  QAdd(QMul(slope, QSub(x, xp[j])), fp[j])

\* line 626
sc_cintrp(awlngth, cwlngth, cpd_ts) ==
    [i \in 1..Len(awlngth) |-> np_interp(awlngth[i], cwlngth, cpd_ts)]

\* The leakage test with < in place of <=.
sc_scat_ratio_lt(aref, cref) ==
    IF QLe(aref, Zero) THEN Zero
    ELSE IF QLt(QSub(cref, aref), ref_scatter_leakage_min) THEN Zero
    ELSE QDiv(aref, QSub(cref, aref))

\* The ratio taken over the attenuation instead of the leakage.
sc_scat_ratio_over_cref(aref, cref) ==
    IF QLe(aref, Zero) THEN Zero
    ELSE IF QLe(QSub(cref, aref), ref_scatter_leakage_min) THEN Zero
    ELSE QDiv(aref, cref)

\* lines 633-638
sc_scat_ratio(aref, cref) ==
    IF QLe(aref, Zero) THEN Zero
    ELSE IF QLe(QSub(cref, aref), ref_scatter_leakage_min) THEN Zero
    ELSE QDiv(aref, QSub(cref, aref))

\* the locals idx, aref, cintrp, cref, scat_ratio of lines 621-638
sc_locals(apd_ts, awlngth, cpd_ts, cwlngth, rwlngth) ==
    LET idx == sc_idx(awlngth, rwlngth)
        cintrp == sc_cintrp(awlngth, cwlngth, cpd_ts)
    IN  [raised |-> "none", idx |-> idx, aref |-> apd_ts[idx],
         cintrp |-> cintrp, cref |-> cintrp[idx],
         scat_ratio |-> sc_scat_ratio(apd_ts[idx], cintrp[idx])]

NoScLoc == [raised |-> "shape", idx |-> 0, aref |-> Zero, cintrp |-> <<>>,
            cref |-> Zero, scat_ratio |-> Zero]

\* Only the first length check made.
opt_scatter_corr_one_check(apd_ts, awlngth, cpd_ts, cwlngth, rwlngth) ==
    IF Len(apd_ts) # Len(awlngth)
    THEN Raise("ValueError", "apd_awlngth_length", <<>>)
    ELSE IF Len(cpd_ts) # Len(cwlngth)
    THEN Return(apd_ts)
    ELSE LET l == sc_locals(apd_ts, awlngth, cpd_ts, cwlngth, rwlngth)
         IN  Return([w \in 1..Len(apd_ts) |->
                       QSub(apd_ts[w],
                            QMul(l.scat_ratio, QSub(l.cintrp[w], apd_ts[w])))])

\* The correction added to the absorption instead of subtracted.
opt_scatter_corr_added(apd_ts, awlngth, cpd_ts, cwlngth, rwlngth) ==
    LET e == sc_shape_error(apd_ts, awlngth, cpd_ts, cwlngth)
    IN  IF e.kind = "raise" THEN e
        ELSE LET l == sc_locals(apd_ts, awlngth, cpd_ts, cwlngth, rwlngth)
             IN  Return([w \in 1..Len(apd_ts) |->
                           QAdd(apd_ts[w],
                                QMul(l.scat_ratio,
                                     QSub(l.cintrp[w], apd_ts[w])))])

opt_scatter_corr(apd_ts, awlngth, cpd_ts, cwlngth, rwlngth) ==
    LET e == sc_shape_error(apd_ts, awlngth, cpd_ts, cwlngth)
    IN  IF e.kind = "raise" THEN e
        ELSE LET l == sc_locals(apd_ts, awlngth, cpd_ts, cwlngth, rwlngth)
             IN  \* line 641: apd_ts - scat_ratio * (cintrp - apd_ts)
                 Return([w \in 1..Len(apd_ts) |->
                           QSub(apd_ts[w],
                                QMul(l.scat_ratio,
                                     QSub(l.cintrp[w], apd_ts[w])))])

(***************************************************************************)
(* Arguments of the calls to opt_pd_calc.                                  *)
(***************************************************************************)
Fill(n, v) == [i \in 1..n |-> v]

BinVals  == {R(10), R(15), R(20)}
TintVals == {R(5), R(10), R(12), R(15), R(17), R(20), R(25), R(30)}
TabVals  == {Q(1, 10), Q(5, 10)}
RefVals  == {R(1), R(2)}
SigVals  == {R(1), R(3)}
OffVals  == {Q(1, 10), Q(3, 10)}

\* A device file: ascending bins 10, 15, 20, ... and a correction table that
\* is not linear in the bin index.
DevBins(c) == [j \in 1..c |-> R(5 + 5 * j)]
DevTable(r, c) == [w \in 1..r |-> [j \in 1..c |-> Q(w * j * j, 10)]]

\* every combination of array lengths and table shape, with filled-in values
PdShapeArgs(lr, ls, lo, r, c, lb) ==
    {[ref |-> Fill(lr, R(2)), sig |-> Fill(ls, R(1)),
      offset |-> Fill(lo, Q(1, 10)), tintrn |-> t,
      tbins |-> DevBins(lb), tarray |-> DevTable(r, c)] : t \in TintVals}

\* one channel, every bin grid (sorted or not) and every table row over it
PdBracketArgs(c) ==
    {[ref |-> <<R(2)>>, sig |-> <<R(1)>>, offset |-> <<Q(1, 10)>>,
      tintrn |-> t, tbins |-> g, tarray |-> <<row>>] :
        g \in [1..c -> BinVals], row \in [1..c -> TabVals], t \in TintVals}

\* every choice of counts and offsets over the device file
PdValueArgs(n) ==
    {[ref |-> rf, sig |-> sg, offset |-> of, tintrn |-> t,
      tbins |-> DevBins(MaxBins), tarray |-> DevTable(n, MaxBins)] :
        rf \in [1..n -> RefVals], sg \in [1..n -> SigVals],
        of \in [1..n -> OffVals], t \in TintVals}

NoLoc == [raised |-> "none", ind1 |-> 0, ind2 |-> 0]

(***************************************************************************)
(* The calls.                                                              *)
(***************************************************************************)
InitPd ==
    /\ pc = "call"
    /\ fn = "opt_pd_calc"
    /\ \/ \E lr \in 1..MaxChan, ls \in 1..MaxChan, lo \in 1..MaxChan,
             r \in 1..MaxChan, c \in 1..MaxBins, lb \in 1..MaxBins :
               args \in PdShapeArgs(lr, ls, lo, r, c, lb)
       \/ \E c \in 1..MaxBins : args \in PdBracketArgs(c)
       \/ \E n \in 1..MaxChan : args \in PdValueArgs(n)
    /\ ret = NoRet
    /\ loc = NoLoc
    /\ tscor = tscor_table

Call_opt_pd_calc ==
    /\ pc = "call"
    /\ fn = "opt_pd_calc"
    /\ ret' = opt_pd_calc(args.ref, args.sig, args.offset, args.tintrn,
                          args.tbins, args.tarray)
    /\ loc' = pd_locals(args.ref, args.sig, args.offset, args.tintrn,
                        args.tbins, args.tarray)
    /\ pc' = "done"
    /\ UNCHANGED <<fn, args, tscor>>

(***************************************************************************)
(* Arguments of the calls to opt_tempsal_corr: 800 nm is not in the table. *)
(***************************************************************************)
ChannelVals == {"a", "c", "x"}
PdVals   == {Q(1, 10), Q(5, 10)}
WlVals   == {R(400), R(715), R(800)}
TcalVals == {R(20)}
TVals    == {R(10), R(25)}
PSVals   == {R(0), R(35)}

TsArgs(n, m) ==
    [channel : ChannelVals, pd : [1..n -> PdVals], wlngth : [1..m -> WlVals],
     tcal : TcalVals, T : TVals, PS : PSVals]

InitTs ==
    /\ pc = "call"
    /\ fn = "opt_tempsal_corr"
    /\ \E n \in 1..MaxChan, m \in 1..MaxChan : args \in TsArgs(n, m)
    /\ ret = NoRet
    /\ loc = NoLoc
    /\ tscor = tscor_table

Call_opt_tempsal_corr ==
    /\ pc = "call"
    /\ fn = "opt_tempsal_corr"
    /\ ret' = opt_tempsal_corr(args.channel, args.pd, args.wlngth, args.tcal,
                               args.T, args.PS)
    /\ pc' = "done"
    /\ UNCHANGED <<fn, args, loc, tscor>>

(***************************************************************************)
(* Arguments of the calls to opt_scatter_corr.  The attenuation wavelength *)
(* grid is increasing, as np.interp requires.                              *)
(***************************************************************************)
ApdVals  == {Q(-1, 100), Q(1, 100), Q(2, 100), Q(5, 100)}
AwlVals  == {R(705), R(715)}
CpdVals  == {Q(15, 1000), Q(4, 100), Q(10, 100)}
CwlVals  == {R(700), R(715), R(730)}
RwlVals  == {Omitted, R(710)}

Increasing(s) == \A i \in 1..(Len(s) - 1) : QLt(s[i], s[i + 1])

\* every combination of the four array lengths, with filled-in values
ScShapeArgs(la, lwa, lc, lwc) ==
    [apd_ts |-> Fill(la, Q(5, 100)),
     awlngth |-> [i \in 1..lwa |-> R(700 + 10 * i)],
     cpd_ts |-> Fill(lc, Q(10, 100)),
     cwlngth |-> [i \in 1..lwc |-> R(695 + 10 * i)],
     rwlngth |-> R(715)]

\* matching lengths, every choice of values
ScValueArgs(na, nc) ==
    [apd_ts : [1..na -> ApdVals], awlngth : [1..na -> AwlVals],
     cpd_ts : [1..nc -> CpdVals],
     cwlngth : {g \in [1..nc -> CwlVals] : Increasing(g)},
     rwlngth : RwlVals]

InitSc ==
    /\ pc = "call"
    /\ fn = "opt_scatter_corr"
    /\ \/ \E la \in 1..MaxChan, lwa \in 1..MaxChan,
             lc \in 1..MaxChan, lwc \in 1..MaxChan :
               args = ScShapeArgs(la, lwa, lc, lwc)
       \/ \E na \in 1..MaxChan, nc \in 1..MaxChan :
               args \in ScValueArgs(na, nc)
    /\ ret = NoRet
    /\ loc = NoLoc
    /\ tscor = tscor_table

Call_opt_scatter_corr ==
    /\ pc = "call"
    /\ fn = "opt_scatter_corr"
    /\ ret' = opt_scatter_corr(args.apd_ts, args.awlngth, args.cpd_ts,
                               args.cwlngth, sc_rwlngth(args.rwlngth))
    /\ loc' = IF sc_shape_error(args.apd_ts, args.awlngth, args.cpd_ts,
                                args.cwlngth).kind = "raise"
              THEN NoScLoc
              ELSE sc_locals(args.apd_ts, args.awlngth, args.cpd_ts,
                             args.cwlngth, sc_rwlngth(args.rwlngth))
    /\ pc' = "done"
    /\ UNCHANGED <<fn, args, tscor>>

(***************************************************************************)
(* Specifications: one per function, and all calls together.               *)
(***************************************************************************)
NextPd == Call_opt_pd_calc

SpecPd == InitPd /\ [][NextPd]_vars

NextTs == Call_opt_tempsal_corr

SpecTs == InitTs /\ [][NextTs]_vars

NextSc == Call_opt_scatter_corr

SpecSc == InitSc /\ [][NextSc]_vars

Init == InitPd \/ InitTs \/ InitSc

Next ==
    \/ Call_opt_pd_calc
    \/ Call_opt_tempsal_corr
    \/ Call_opt_scatter_corr

Spec == Init /\ [][Next]_vars

(***************************************************************************)
(* Properties of opt_pd_calc.                                              *)
(***************************************************************************)
PdDone == pc = "done" /\ fn = "opt_pd_calc"

PdShapesOk(a) ==
    /\ Len(a.ref) = Len(a.sig)
    /\ Len(a.offset) = Len(a.sig)
    /\ NRows(a.tarray) = Len(a.sig)
    /\ NCols(a.tarray) = Len(a.tbins)

Ascending(s) == \A i \in 1..(Len(s) - 1) : QLe(s[i], s[i + 1])

\* the straight line through columns k0 and k1 of row w, taken at tintrn
Interp(a, w, k0, k1) ==
    QAdd(a.tarray[w][k0],
         QMul(QDiv(QSub(a.tintrn, a.tbins[k0]),
                   QSub(a.tbins[k1], a.tbins[k0])),
              QSub(a.tarray[w][k1], a.tarray[w][k0])))

Raised(e) == ret.kind = "raise" /\ ret.exc = e

\* C1: on an ascending bin grid with valid shapes, the call raises an
\* IndexError when tintrn is below the lowest or above the highest bin, and
\* returns, interpolating between bins k and k+1, when tintrn lies strictly
\* between the adjacent bins k and k+1.
C1_GridRange ==
    (PdDone /\ PdShapesOk(args) /\ Ascending(args.tbins)) =>
        LET t == args.tintrn
            b == args.tbins
            n == Len(b)
        IN  /\ (QLt(t, b[1]) \/ QLt(b[n], t)) => Raised("IndexError")
            /\ \A k \in 1..(n - 1) :
                 (QLt(b[k], t) /\ QLt(t, b[k + 1])) =>
                    /\ ret.kind = "return"
                    /\ loc.ind1 = k /\ loc.ind2 = k + 1
                    /\ ret.val[2] =
                         [w \in 1..Len(args.tarray) |-> Interp(args, w, k, k + 1)]

\* tintrn = 25 above the grid 10, 15, 20: the call raised IndexError
C1_Witness ==
    /\ PdDone /\ PdShapesOk(args)
    /\ args.tbins = <<R(10), R(15), R(20)>>
    /\ args.tintrn = R(25)
    /\ Raised("IndexError")

\* C2 as claimed: on an ascending grid a successful call has the largest bin
\* strictly below tintrn as lower bracket and the smallest bin above or equal
\* to tintrn as upper bracket; when tintrn equals tbins[k] the upper bracket
\* is tbins[k] and deltaT is column k of the table.
C2_UpperBracketAtOrAbove ==
    (PdDone /\ ret.kind = "return" /\ Ascending(args.tbins)) =>
        LET t == args.tintrn
            b == args.tbins
        IN  /\ QLt(b[loc.ind1], t)
            /\ \A i \in 1..Len(b) : QLt(b[i], t) => QLe(b[i], b[loc.ind1])
            /\ QLe(t, b[loc.ind2])
            /\ \A i \in 1..Len(b) : QLe(t, b[i]) => QLe(b[loc.ind2], b[i])
            /\ \A k \in 1..Len(b) :
                 b[k] = t =>
                    /\ b[loc.ind2] = b[k]
                    /\ ret.val[2] =
                         [w \in 1..Len(args.tarray) |-> args.tarray[w][k]]

\* C2 amended: on an ascending grid a successful call has the largest bin
\* strictly below tintrn as lower bracket and the smallest bin strictly above
\* tintrn as upper bracket; when tintrn equals tbins[k] neither bracket is
\* tbins[k], and deltaT is the line through the two bracket columns taken at
\* tintrn.
C2_UpperBracketStrictlyAbove ==
    (PdDone /\ ret.kind = "return" /\ Ascending(args.tbins)) =>
        LET t == args.tintrn
            b == args.tbins
        IN  /\ QLt(b[loc.ind1], t)
            /\ \A i \in 1..Len(b) : QLt(b[i], t) => QLe(b[i], b[loc.ind1])
            /\ QLt(t, b[loc.ind2])
            /\ \A i \in 1..Len(b) : QLt(t, b[i]) => QLe(b[loc.ind2], b[i])
            /\ \A k \in 1..Len(b) :
                 b[k] = t =>
                    /\ b[loc.ind1] # b[k] /\ b[loc.ind2] # b[k]
                    /\ loc.ind1 < k /\ k < loc.ind2
            /\ ret.val[2] =
                 [w \in 1..Len(args.tarray) |->
                     Interp(args, w, loc.ind1, loc.ind2)]

\* tintrn equal to the middle bin: the call returned a deltaT that is not the
\* table column of that bin
C2_Witness ==
    /\ PdDone /\ ret.kind = "return" /\ Ascending(args.tbins)
    /\ Len(args.tbins) = 3
    /\ args.tintrn = args.tbins[2]
    /\ loc.ind1 = 1 /\ loc.ind2 = 3
    /\ ret.val[2] # [w \in 1..Len(args.tarray) |-> args.tarray[w][2]]

Between(x, u, v) == (QLe(u, x) /\ QLe(x, v)) \/ (QLe(v, x) /\ QLe(x, u))

\* C3: a successful call has T0 < T1 and returns, for every channel w,
\* deltaT[w] = tarray[w,i0] + ((tintrn-T0)/(T1-T0))*(tarray[w,i1]-tarray[w,i0])
\* and pd[w] = offset[w] - 4*ln(sig[w]/ref[w]) - deltaT[w]; deltaT[w] lies
\* between the two bracketing table values.
C3_PdAndDeltaT ==
    (PdDone /\ ret.kind = "return") =>
        LET a  == args
            i0 == loc.ind1
            i1 == loc.ind2
            pd == ret.val[1]
            dT == ret.val[2]
        IN  /\ QLt(a.tbins[i0], a.tbins[i1])
            /\ Len(ret.val) = 2
            /\ DOMAIN pd = 1..Len(a.sig) /\ DOMAIN dT = 1..Len(a.sig)
            /\ \A w \in 1..Len(a.sig) :
                 /\ dT[w] = Interp(a, w, i0, i1)
                 /\ pd[w] = QSub(QSub(a.offset[w],
                                      QMul(R(4), Ln(QDiv(a.sig[w], a.ref[w])))),
                                 dT[w])
                 /\ QAdd(pd[w], dT[w]) =
                      QSub(a.offset[w],
                           QMul(R(4), Ln(QDiv(a.sig[w], a.ref[w]))))
                 /\ Between(dT[w], a.tarray[w][i0], a.tarray[w][i1])

\* two channels with sig # ref, tintrn = 17 between bins 15 and 20
C3_Witness ==
    /\ PdDone /\ ret.kind = "return"
    /\ Len(args.sig) = 2
    /\ args.sig[1] # args.ref[1] /\ args.sig[2] # args.ref[2]
    /\ args.tintrn = R(17)
    /\ args.tbins[loc.ind1] = R(15) /\ args.tbins[loc.ind2] = R(20)
    /\ ret.val[2][2] # args.tarray[2][loc.ind1]
    /\ ret.val[2][2] # args.tarray[2][loc.ind2]

\* C4: the call raises a ValueError exactly when one of the four shape
\* equalities fails (len(ref) = len(sig), len(offset) = len(sig), table rows =
\* len(sig), table columns = number of bins), the error is that of the first
\* failing check, and it is raised before the bracket search is done.
C4_ShapeMismatch ==
    PdDone =>
        LET a == args
        IN  /\ (~PdShapesOk(a)) <=> Raised("ValueError")
            /\ (~PdShapesOk(a)) => loc.raised = "shape"
            /\ Len(a.ref) # Len(a.sig) => ret.what = "ref_sig_length"
            /\ (Len(a.ref) = Len(a.sig) /\ Len(a.offset) # Len(a.sig))
                  => ret.what = "offset_length"
            /\ (Len(a.ref) = Len(a.sig) /\ Len(a.offset) = Len(a.sig)
                  /\ NRows(a.tarray) # Len(a.sig)) => ret.what = "tarray_rows"
            /\ (Len(a.ref) = Len(a.sig) /\ Len(a.offset) = Len(a.sig)
                  /\ NRows(a.tarray) = Len(a.sig)
                  /\ NCols(a.tarray) # Len(a.tbins)) => ret.what = "tarray_cols"

\* reference longer than signal and tintrn outside the grid: the length
\* error is the one raised
C4_Witness ==
    /\ PdDone
    /\ Len(args.ref) = 2 /\ Len(args.sig) = 1
    /\ BelowIdx(args.tbins, args.tintrn) = {}
    /\ Raised("ValueError") /\ ret.what = "ref_sig_length"

(***************************************************************************)
(* Properties of opt_tempsal_corr.                                         *)
(***************************************************************************)
TsDone == pc = "done" /\ fn = "opt_tempsal_corr"

InvalidChannelError == Raised("ValueError") /\ ret.what = "channel"

\* C5 as claimed: with pd and wavelength arrays of equal length, every
\* channel other than 'a' and 'c' makes the call raise the invalid-channel
\* error, whatever the other arguments are; 'a' and 'c' never raise it.
C5_InvalidChannelAlways ==
    (TsDone /\ Len(args.pd) = Len(args.wlngth)) =>
        /\ args.channel \notin {"a", "c"} => InvalidChannelError
        /\ args.channel \in {"a", "c"} => ~InvalidChannelError

\* C5 amended: with arrays of equal length, every channel other than 'a' and
\* 'c' makes the call fail: with the invalid-channel error when every
\* wavelength is a key of tscor, and with the KeyError of the table lookup,
\* which comes first, when a wavelength is missing; 'a' and 'c' never raise
\* the invalid-channel error.
C5_InvalidChannelAfterLookup ==
    (TsDone /\ Len(args.pd) = Len(args.wlngth)) =>
        /\ args.channel \notin {"a", "c"} =>
             /\ ret.kind = "raise"
             /\ MissingKeys(args.wlngth) = {} => InvalidChannelError
             /\ MissingKeys(args.wlngth) # {} => Raised("KeyError")
        /\ args.channel \in {"a", "c"} => ~InvalidChannelError

\* channel 'x' with a wavelength that is not in the table: KeyError
C5_Witness ==
    /\ TsDone /\ Len(args.pd) = Len(args.wlngth)
    /\ args.channel = "x"
    /\ MissingKeys(args.wlngth) # {}
    /\ Raised("KeyError")

\* C6: whenever a wavelength of the grid is not a key of tscor the call
\* raises and returns no value, also when the other wavelengths are keys;
\* with arrays of equal length (the length check precedes the lookup) the
\* error is the KeyError of the first missing wavelength.
C6_MissingWavelengthFails ==
    (TsDone /\ \E i \in 1..Len(args.wlngth) : args.wlngth[i] \notin DOMAIN tscor)
        =>  /\ ret.kind = "raise"
            /\ ret.val = <<>>
            /\ Len(args.pd) = Len(args.wlngth) =>
                 /\ Raised("KeyError")
                 /\ \E i \in 1..Len(args.wlngth) :
                      /\ args.wlngth[i] \notin DOMAIN tscor
                      /\ \A j \in 1..(i - 1) : args.wlngth[j] \in DOMAIN tscor
                      /\ ret.nums = <<args.wlngth[i]>>

\* channel 'a', two wavelengths of which only the second is missing
C6_Witness ==
    /\ TsDone /\ args.channel = "a"
    /\ Len(args.pd) = 2 /\ Len(args.wlngth) = 2
    /\ args.wlngth[1] \in DOMAIN tscor
    /\ args.wlngth[2] \notin DOMAIN tscor
    /\ Raised("KeyError")

TsValid(a) ==
    /\ Len(a.pd) = Len(a.wlngth)
    /\ \A i \in 1..Len(a.wlngth) : a.wlngth[i] \in DOMAIN tscor
    /\ a.channel \in {"a", "c"}

\* C7: for valid arguments the call returns, for every index w,
\* pd[w] - (T - tcal)*k[w][0] - PS*k[w][s] with k[w] the table entry of
\* wavelength w, s = 1 for channel 'c' and s = 2 for channel 'a' (here the
\* second and third element of the triple).
C7_TempSalFormula ==
    (TsDone /\ TsValid(args)) =>
        LET a == args
            s == IF a.channel = "c" THEN 2 ELSE 3
        IN  /\ ret.kind = "return"
            /\ DOMAIN ret.val = 1..Len(a.pd)
            /\ \A w \in 1..Len(a.pd) :
                 ret.val[w] =
                    QSub(QSub(a.pd[w],
                              QMul(QSub(a.T, a.tcal), tscor[a.wlngth[w]][1])),
                         QMul(a.PS, tscor[a.wlngth[w]][s]))

\* channel 'a' at salinity 35 and T # tcal on two different wavelengths
C7_Witness ==
    /\ TsDone /\ TsValid(args)
    /\ args.channel = "a" /\ args.PS = R(35) /\ args.T # args.tcal
    /\ Len(args.pd) = 2 /\ args.wlngth[1] # args.wlngth[2]
    /\ ret.kind = "return"
    /\ ret.val # args.pd

(***************************************************************************)
(* Properties of opt_scatter_corr.                                         *)
(***************************************************************************)
ScDone == pc = "done" /\ fn = "opt_scatter_corr"

ScReturned == ScDone /\ ret.kind = "return"

\* C8: when aref <= 0, or cref - aref does not exceed 0.02, the scattering
\* ratio is zero and the call returns the absorption array unchanged.
C8_CorrectionSuppressed ==
    (ScReturned /\ (QLe(loc.aref, Zero)
                    \/ ~QLt(Q(2, 100), QSub(loc.cref, loc.aref)))) =>
        /\ loc.aref = args.apd_ts[loc.idx]
        /\ loc.cref = loc.cintrp[loc.idx]
        /\ loc.scat_ratio = Zero
        /\ ret.val = args.apd_ts

\* aref = 0.02 and cref = 0.04: the leakage is exactly 0.02
C8_Witness ==
    /\ ScReturned
    /\ loc.aref = Q(2, 100) /\ loc.cref = Q(4, 100)
    /\ loc.scat_ratio = Zero
    /\ ret.val = args.apd_ts

\* C9: when aref > 0 and cref - aref > 0.02, the scattering ratio is
\* aref/(cref - aref) and the call returns, at every index w,
\* apd_ts[w] - ratio*(cintrp[w] - apd_ts[w]), with cintrp the attenuation
\* interpolated onto the absorption wavelengths.
C9_CorrectionApplied ==
    (ScReturned /\ QLt(Zero, loc.aref)
                /\ QLt(Q(2, 100), QSub(loc.cref, loc.aref))) =>
        /\ loc.aref = args.apd_ts[loc.idx]
        /\ loc.cref = loc.cintrp[loc.idx]
        /\ loc.scat_ratio = QDiv(loc.aref, QSub(loc.cref, loc.aref))
        /\ DOMAIN loc.cintrp = 1..Len(args.awlngth)
        /\ \A w \in 1..Len(args.awlngth) :
             loc.cintrp[w] = np_interp(args.awlngth[w], args.cwlngth, args.cpd_ts)
        /\ DOMAIN ret.val = 1..Len(args.apd_ts)
        /\ \A w \in 1..Len(args.apd_ts) :
             ret.val[w] =
                QSub(args.apd_ts[w],
                     QMul(QDiv(loc.aref, QSub(loc.cref, loc.aref)),
                          QSub(loc.cintrp[w], args.apd_ts[w])))

\* aref = 0.05 and cref = 0.10: ratio 1, on two absorption wavelengths
C9_Witness ==
    /\ ScReturned
    /\ loc.aref = Q(5, 100) /\ loc.cref = Q(10, 100)
    /\ loc.scat_ratio = R(1)
    /\ Len(args.apd_ts) = 2
    /\ ret.val # args.apd_ts

\* C10: the call raises a ValueError whenever len(apd_ts) # len(awlngth) and
\* whenever len(cpd_ts) # len(cwlngth), each whether or not the other pair
\* matches; when both pairs match it returns, also when the two wavelength
\* grids differ in length.
C10_LengthChecks ==
    ScDone =>
        /\ Len(args.apd_ts) # Len(args.awlngth) => Raised("ValueError")
        /\ Len(args.cpd_ts) # Len(args.cwlngth) => Raised("ValueError")
        /\ (Len(args.apd_ts) = Len(args.awlngth)
              /\ Len(args.cpd_ts) = Len(args.cwlngth)) => ret.kind = "return"

\* the absorption pair matches, the attenuation pair does not: ValueError
C10_Witness ==
    /\ ScDone
    /\ Len(args.apd_ts) = Len(args.awlngth)
    /\ Len(args.cpd_ts) # Len(args.cwlngth)
    /\ Raised("ValueError") /\ ret.what = "cpd_cwlngth_length"

(***************************************************************************)
(* Further properties of opt_pd_calc.                                      *)
(***************************************************************************)
StrictlyAscending(s) == \A i \in 1..(Len(s) - 1) : QLt(s[i], s[i + 1])

\* C19: when the call succeeds on a strictly ascending bin grid, the brackets
\* satisfy T0 < tintrn < T1 with index(T0) < index(T1), so T1 - T0 is not
\* zero and the weight (tintrn - T0)/(T1 - T0) lies strictly between 0 and
\* 1; when tintrn equals the interior bin tbins[k] the brackets are
\* tbins[k-1] and tbins[k+1].
C19_BracketsStrict ==
    (PdDone /\ ret.kind = "return" /\ StrictlyAscending(args.tbins)) =>
        LET t  == args.tintrn
            b  == args.tbins
            T0 == b[loc.ind1]
            T1 == b[loc.ind2]
            weight == QDiv(QSub(t, T0), QSub(T1, T0))
        IN  /\ QLt(T0, t) /\ QLt(t, T1)
            /\ loc.ind1 < loc.ind2
            /\ QSub(T1, T0) # Zero
            /\ QLt(Zero, weight) /\ QLt(weight, R(1))
            /\ \A k \in 1..Len(b) :
                 b[k] = t => (loc.ind1 = k - 1 /\ loc.ind2 = k + 1)

\* tintrn = 15 on the grid 10, 15, 20: brackets 10 and 20, weight 1/2
C19_Witness ==
    /\ PdDone /\ ret.kind = "return"
    /\ args.tbins = <<R(10), R(15), R(20)>>
    /\ args.tintrn = R(15)
    /\ loc.ind1 = 1 /\ loc.ind2 = 3

BinMin(b) == CHOOSE x \in {b[i] : i \in 1..Len(b)} :
                \A i \in 1..Len(b) : QLe(x, b[i])
BinMax(b) == CHOOSE x \in {b[i] : i \in 1..Len(b)} :
                \A i \in 1..Len(b) : QLe(b[i], x)

\* C20: with valid shapes the call raises an IndexError when tintrn equals
\* the lowest bin value and when it equals the highest bin value; it returns
\* exactly when min(tbins) < tintrn < max(tbins).
C20_EndBinsExcluded ==
    (PdDone /\ PdShapesOk(args)) =>
        LET t == args.tintrn
            b == args.tbins
        IN  /\ t = BinMin(b) => Raised("IndexError")
            /\ t = BinMax(b) => Raised("IndexError")
            /\ ret.kind = "return" <=> (QLt(BinMin(b), t) /\ QLt(t, BinMax(b)))
            /\ ret.kind # "return" => Raised("IndexError")

\* tintrn = 10, the lowest bin of a grid with higher bins: IndexError
C20_Witness ==
    /\ PdDone /\ PdShapesOk(args)
    /\ Len(args.tbins) = 3
    /\ args.tintrn = BinMin(args.tbins)
    /\ QLt(args.tintrn, BinMax(args.tbins))
    /\ Raised("IndexError") /\ ret.what = "ind1"

(***************************************************************************)
(* Further properties of opt_scatter_corr.                                 *)
(***************************************************************************)
Dist(w, r) == QAbs(QSub(w, r))

\* C18: the reference index is the index of the absorption wavelength
\* nearest to the reference wavelength (715 when the argument is omitted),
\* the lowest such index on a tie; aref is the absorption value at that
\* index and cref the attenuation interpolated onto the absorption
\* wavelength at that index.
C18_ReferenceIndex ==
    ScReturned =>
        LET rw  == IF args.rwlngth = Omitted THEN R(715) ELSE args.rwlngth
            awl == args.awlngth
            idx == loc.idx
        IN  /\ idx \in 1..Len(awl)
            /\ \A j \in 1..Len(awl) : QLe(Dist(awl[idx], rw), Dist(awl[j], rw))
            /\ \A j \in 1..(idx - 1) : QLt(Dist(awl[idx], rw), Dist(awl[j], rw))
            /\ loc.aref = args.apd_ts[idx]
            /\ loc.cref = np_interp(awl[idx], args.cwlngth, args.cpd_ts)

\* 705 and 715 are equally far from 710: the first of them is the reference
C18_Witness ==
    /\ ScReturned
    /\ args.rwlngth = R(710)
    /\ args.awlngth = <<R(705), R(715)>>
    /\ loc.idx = 1
    /\ Len(args.cwlngth) = 1

\* the argument omitted: 715 is the reference wavelength
C18_WitnessDefault ==
    /\ ScReturned
    /\ args.rwlngth = Omitted
    /\ args.awlngth = <<R(705), R(715)>>
    /\ loc.idx = 2

(***************************************************************************)
(* The numbers carried by the length-mismatch errors.                      *)
(***************************************************************************)
Names(n) == \E i \in 1..Len(ret.nums) : ret.nums[i] = n

RefSigMismatch ==
    PdDone /\ Raised("ValueError") /\ ret.what = "ref_sig_length"
OffsetMismatch ==
    PdDone /\ Raised("ValueError") /\ ret.what = "offset_length"
TsMismatch ==
    TsDone /\ Raised("ValueError") /\ ret.what = "pd_wlngth_length"
ScAbsMismatch ==
    ScDone /\ Raised("ValueError") /\ ret.what = "apd_awlngth_length"
ScAttMismatch ==
    ScDone /\ Raised("ValueError") /\ ret.what = "cpd_cwlngth_length"

C16_WitnessOffset ==
    /\ OffsetMismatch
    /\ Len(args.offset) = 1 /\ Len(args.sig) = 2
    /\ ret.nums = <<1, 2>>

(***************************************************************************)
(* opt_ocr507_irradiance (lines 922-984).  The four arguments are 2-D      *)
(* arrays, a sequence of rows each; np.atleast_2d leaves them as they are. *)
(***************************************************************************)
Shape(x) == <<Len(x), Len(x[1])>>

\* line 976: the number of wavelength channels of the OCR-507
ocr_columns == 7

\* The column test as a lower limit.
opt_ocr507_irradiance_min_columns(counts, offset, scale, immersion_factor) ==
    LET lFlag1 == Shape(counts)[2] < ocr_columns
        lFlag2 == ~ (/\ Shape(counts) = Shape(offset)
                     /\ Shape(offset) = Shape(scale)
                     /\ Shape(scale) = Shape(immersion_factor))
    IN  IF lFlag1 \/ lFlag2
        THEN Raise("ValueError", "shape_or_columns", <<>>)
        ELSE Return([i \in 1..Len(counts) |->
                       [j \in 1..Len(counts[1]) |->
                          QMul(QMul(QSub(QMul(counts[i][j], R(1)),
                                         offset[i][j]),
                                    scale[i][j]),
                               immersion_factor[i][j])]])

\* lines 969-983: counts*1.0, the two flags, the error, the product
opt_ocr507_irradiance(counts, offset, scale, immersion_factor) ==
    LET lFlag1 == Shape(counts)[2] # ocr_columns
        lFlag2 == ~ (/\ Shape(counts) = Shape(offset)
                     /\ Shape(offset) = Shape(scale)
                     /\ Shape(scale) = Shape(immersion_factor))
    IN  IF lFlag1 \/ lFlag2
        THEN Raise("ValueError", "shape_or_columns", <<>>)
        ELSE Return([i \in 1..Len(counts) |->
                       [j \in 1..Len(counts[1]) |->
                          QMul(QMul(QSub(QMul(counts[i][j], R(1)),
                                         offset[i][j]),
                                    scale[i][j]),
                               immersion_factor[i][j])]])

(***************************************************************************)
(* Arguments of the calls to opt_ocr507_irradiance: arrays of 1 to         *)
(* MaxPackets rows and 6, 7 or 8 columns.                                  *)
(***************************************************************************)
OcrCols == {ocr_columns - 1, ocr_columns, ocr_columns + 1}

Grid(r, c, v) == [i \in 1..r |-> [j \in 1..c |-> v]]

\* every combination of the four shapes
OcrShapeArgs(rc, cc, ro, co, rs, cs, ri, ci) ==
    [counts |-> Grid(rc, cc, R(120)), offset |-> Grid(ro, co, R(20)),
     scale |-> Grid(rs, cs, Q(1, 10)),
     immersion_factor |-> Grid(ri, ci, Q(13, 10))]

OcrCountRows  == {[j \in 1..ocr_columns |-> R(100 * j)],
                  [j \in 1..ocr_columns |-> R(7 - j)]}
OcrOffsetRows == {[j \in 1..ocr_columns |-> R(10)],
                  [j \in 1..ocr_columns |-> R(j)]}
OcrScaleRows  == {[j \in 1..ocr_columns |-> Q(1, 10)],
                  [j \in 1..ocr_columns |-> Q(j, 100)]}
OcrImmersionRows == {[j \in 1..ocr_columns |-> Q(13, 10)]}

\* equal shapes with 7 columns, the rows chosen freely
OcrValueArgs(r) ==
    [counts : [1..r -> OcrCountRows], offset : [1..r -> OcrOffsetRows],
     scale : [1..r -> OcrScaleRows],
     immersion_factor : [1..r -> OcrImmersionRows]]

InitOcr ==
    /\ pc = "call"
    /\ fn = "opt_ocr507_irradiance"
    /\ \/ \E rc \in 1..MaxPackets, ro \in 1..MaxPackets,
             rs \in 1..MaxPackets, ri \in 1..MaxPackets :
          \E cc \in OcrCols, co \in OcrCols, cs \in OcrCols, ci \in OcrCols :
               args = OcrShapeArgs(rc, cc, ro, co, rs, cs, ri, ci)
       \/ \E r \in 1..MaxPackets : args \in OcrValueArgs(r)
    /\ ret = NoRet
    /\ loc = NoLoc
    /\ tscor = tscor_table

Call_opt_ocr507_irradiance ==
    /\ pc = "call"
    /\ fn = "opt_ocr507_irradiance"
    /\ ret' = opt_ocr507_irradiance(args.counts, args.offset, args.scale,
                                    args.immersion_factor)
    /\ pc' = "done"
    /\ UNCHANGED <<fn, args, loc, tscor>>

NextOcr == Call_opt_ocr507_irradiance

SpecOcr == InitOcr /\ [][NextOcr]_vars

(***************************************************************************)
(* Properties of opt_ocr507_irradiance.                                    *)
(***************************************************************************)
OcrDone == pc = "done" /\ fn = "opt_ocr507_irradiance"

SameShapes(a) ==
    /\ Shape(a.counts) = Shape(a.offset)
    /\ Shape(a.counts) = Shape(a.scale)
    /\ Shape(a.counts) = Shape(a.immersion_factor)

C15_WitnessColumns ==
    /\ OcrDone /\ Raised("ValueError")
    /\ SameShapes(args) /\ Len(args.counts[1]) = 8

\* 7 columns in counts, another row count in scale: ValueError
C15_WitnessShapes ==
    /\ OcrDone /\ Raised("ValueError")
    /\ Len(args.counts[1]) = 7 /\ ~ SameShapes(args)

(***************************************************************************)
(* Arrays of the two pipelines.  An array is a record [nd, v]: nd is its   *)
(* number of dimensions, v its nested sequences (a scalar when nd = 0).    *)
(***************************************************************************)
Arr(nd, v) == [nd |-> nd, v |-> v]

\* np.array(x, ndmin=k): dimensions are prepended until there are k of them
RECURSIVE np_array_ndmin(_, _)
np_array_ndmin(x, ndmin) ==
    IF x.nd >= ndmin THEN x
    ELSE np_array_ndmin(Arr(x.nd + 1, <<x.v>>), ndmin)

\* np.around(q, decimals=1) of one number: ten times the number rounded to
\* the nearest integer, halves to the even one, then divided by ten
np_around1(q) ==
    LET n == 10 * q[1]
        d == q[2]
        f == n \div d
        r == n - f * d
        up == (2 * r > d) \/ (2 * r = d /\ f % 2 = 1)
    IN  Q(IF up THEN f + 1 ELSE f, 10)

\* np.around(x, decimals=1) of a 2-D array
np_around(x) ==
    Arr(x.nd, [i \in 1..Len(x.v) |->
                 [j \in 1..Len(x.v[i]) |-> np_around1(x.v[i][j])]])

\* x[ii] on the first axis raises IndexError when ii is past its end; the
\* message carries the Python index and the size of the axis.
IndexErr(x, ii) == Raise("IndexError", "axis0", <<ii - 1, Len(x.v)>>)

\* the first array of the sequence xs that has no row ii, 0 when all have
FirstShort(xs, ii) ==
    LET S == {k \in 1..Len(xs) : ii > Len(xs[k].v)}
    IN  IF S = {} THEN 0 ELSE SetMin(S)

(***************************************************************************)
(* opt_internal_temp (lines 251-299).  The thermistor formula (volts,      *)
(* resistance, Steinhart-Hart polynomial in np.log(res)) is tabulated to   *)
(* two decimals, in hundredths of a degree, on the raw counts the model    *)
(* uses: 52184 -> 5.0014, 49879 -> 11.9995, 47950 -> 16.9999, 44399 ->     *)
(* 24.9993 degrees.                                                        *)
(***************************************************************************)
InternalTempCenti ==
    (52184 :> 500) @@ (49879 :> 1200) @@ (47950 :> 1700) @@ (44399 :> 2500)

opt_internal_temp(traw) == Q(InternalTempCenti[traw], 100)

(***************************************************************************)
(* opt_beam_attenuation (lines 17-125).  A run is the record [ret, ii,     *)
(* out]: what the call returns or raises, the packet at which the loop     *)
(* stopped (npackets + 1 after the last one) and the local output array    *)
(* cpd_ts as the loop left it.                                             *)
(***************************************************************************)
\* the reshaping without the rounding of the wavelength grid
beam_reshape_unrounded(cref, csig, traw, cwl, coff, tcal, tbins, tc_arr, T, PS) ==
    [cref |-> np_array_ndmin(cref, 2), csig |-> np_array_ndmin(csig, 2),
     traw |-> np_array_ndmin(traw, 1),
     cwl |-> np_array_ndmin(cwl, 2),
     coff |-> np_array_ndmin(coff, 2), tcal |-> np_array_ndmin(tcal, 1),
     tbins |-> np_array_ndmin(tbins, 2), T |-> np_array_ndmin(T, 1),
     PS |-> np_array_ndmin(PS, 1), tc_arr |-> np_array_ndmin(tc_arr, 3)]

\* lines 91-102: the arguments brought to 2, 1 and 3 dimensions, the
\* wavelength grid rounded to one decimal
beam_reshape(cref, csig, traw, cwl, coff, tcal, tbins, tc_arr, T, PS) ==
    [cref |-> np_array_ndmin(cref, 2), csig |-> np_array_ndmin(csig, 2),
     traw |-> np_array_ndmin(traw, 1),
     cwl |-> np_around(np_array_ndmin(cwl, 2)),
     coff |-> np_array_ndmin(coff, 2), tcal |-> np_array_ndmin(tcal, 1),
     tbins |-> np_array_ndmin(tbins, 2), T |-> np_array_ndmin(T, 1),
     PS |-> np_array_ndmin(PS, 1), tc_arr |-> np_array_ndmin(tc_arr, 3)]

\* the number of packets read off the reference counts
beam_npackets_from_counts(b) == Len(b.cref.v)

\* line 105: npackets = cwl.shape[0]
beam_npackets(b) == Len(b.cwl.v)

\* line 106: nwavelengths = cwl.shape[1]
beam_nwavelengths(b) == Len(b.cwl.v[1])

\* the stages of packet ii with the offsets of the first packet
beam_packet_first_offset(b, ii) ==
    IF ii > Len(b.traw.v) THEN IndexErr(b.traw, ii)
    ELSE
    LET tintrn == opt_internal_temp(b.traw.v[ii])
        pdargs == <<b.cref, b.csig, b.coff, b.tbins, b.tc_arr>>
        tsargs == <<b.cwl, b.tcal, b.T, b.PS>>
        s1 == FirstShort(pdargs, ii)
        s2 == FirstShort(tsargs, ii)
    IN  IF s1 # 0 THEN IndexErr(pdargs[s1], ii)
        ELSE LET r == opt_pd_calc(b.cref.v[ii], b.csig.v[ii], b.coff.v[1],
                                  tintrn, b.tbins.v[ii], b.tc_arr.v[ii])
             IN  IF r.kind = "raise" THEN r
                 ELSE IF s2 # 0 THEN IndexErr(tsargs[s2], ii)
                 ELSE opt_tempsal_corr("c", r.val[1], b.cwl.v[ii],
                                       b.tcal.v[ii], b.T.v[ii], b.PS.v[ii])

\* lines 110-120: the stages of packet ii.  Every x[ii] can raise an
\* IndexError, in the order in which the code evaluates them.
beam_packet(b, ii) ==
    IF ii > Len(b.traw.v) THEN IndexErr(b.traw, ii)
    ELSE
    LET tintrn == opt_internal_temp(b.traw.v[ii])
        pdargs == <<b.cref, b.csig, b.coff, b.tbins, b.tc_arr>>
        tsargs == <<b.cwl, b.tcal, b.T, b.PS>>
        s1 == FirstShort(pdargs, ii)
        s2 == FirstShort(tsargs, ii)
    IN  IF s1 # 0 THEN IndexErr(pdargs[s1], ii)
        ELSE LET r == opt_pd_calc(b.cref.v[ii], b.csig.v[ii], b.coff.v[ii],
                                  tintrn, b.tbins.v[ii], b.tc_arr.v[ii])
             IN  IF r.kind = "raise" THEN r
                 ELSE IF s2 # 0 THEN IndexErr(tsargs[s2], ii)
                 ELSE opt_tempsal_corr("c", r.val[1], b.cwl.v[ii],
                                       b.tcal.v[ii], b.T.v[ii], b.PS.v[ii])

\* the loop going on to the next packet when one fails, its row left zero
RECURSIVE beam_loop_best_effort(_, _, _, _)
beam_loop_best_effort(b, npackets, ii, cpd_ts) ==
    IF ii > npackets
    THEN [ret |-> Return(cpd_ts), ii |-> ii, out |-> cpd_ts]
    ELSE LET r == beam_packet(b, ii)
         IN  IF r.kind = "raise"
             THEN beam_loop_best_effort(b, npackets, ii + 1, cpd_ts)
             ELSE beam_loop_best_effort(b, npackets, ii + 1,
                                        [cpd_ts EXCEPT ![ii] = r.val])

\* lines 110-125: for ii in range(npackets), from packet ii on; line 121
\* stores the row, line 125 returns the array; an exception ends the call
RECURSIVE beam_loop(_, _, _, _)
beam_loop(b, npackets, ii, cpd_ts) ==
    IF ii > npackets
    THEN [ret |-> Return(cpd_ts), ii |-> ii, out |-> cpd_ts]
    ELSE LET r == beam_packet(b, ii)
         IN  IF r.kind = "raise"
             THEN [ret |-> r, ii |-> ii, out |-> cpd_ts]
             ELSE beam_loop(b, npackets, ii + 1,
                            [cpd_ts EXCEPT ![ii] = r.val])

\* lines 91-125; line 108 is the array of zeros
beam_run(cref, csig, traw, cwl, coff, tcal, tbins, tc_arr, T, PS) ==
    LET b == beam_reshape(cref, csig, traw, cwl, coff, tcal, tbins, tc_arr,
                          T, PS)
        npackets == beam_npackets(b)
    IN  beam_loop(b, npackets, 1,
                  [i \in 1..npackets |->
                     [j \in 1..beam_nwavelengths(b) |-> Zero]])

opt_beam_attenuation(cref, csig, traw, cwl, coff, tcal, tbins, tc_arr, T, PS) ==
    beam_run(cref, csig, traw, cwl, coff, tcal, tbins, tc_arr, T, PS).ret

(***************************************************************************)
(* opt_optical_absorption (lines 130-246).  A run is a record [ret, ii,    *)
(* out] as for opt_beam_attenuation, out being the local array apd_ts_s.   *)
(***************************************************************************)
\* lines 207-220: only the absorption wavelength grid awl is rounded
abs_reshape(aref, asig, traw, awl, aoff, tcal, tbins, ta_arr, cpd_ts, cwl, T, PS) ==
    [aref |-> np_array_ndmin(aref, 2), asig |-> np_array_ndmin(asig, 2),
     traw |-> np_array_ndmin(traw, 1),
     awl |-> np_around(np_array_ndmin(awl, 2)),
     aoff |-> np_array_ndmin(aoff, 2), tcal |-> np_array_ndmin(tcal, 1),
     tbins |-> np_array_ndmin(tbins, 2),
     ta_arr |-> np_array_ndmin(ta_arr, 3),
     cpd_ts |-> np_array_ndmin(cpd_ts, 2), cwl |-> np_array_ndmin(cwl, 2),
     T |-> np_array_ndmin(T, 1), PS |-> np_array_ndmin(PS, 1)]

\* line 223: npackets = awl.shape[0]
abs_npackets(b) == Len(b.awl.v)

\* line 224: nwavelengths = awl.shape[1]
abs_nwavelengths(b) == Len(b.awl.v[1])

\* lines 228-242: the stages of packet ii
abs_packet(b, ii, rwlngth) ==
    IF ii > Len(b.traw.v) THEN IndexErr(b.traw, ii)
    ELSE
    LET tintrn == opt_internal_temp(b.traw.v[ii])
        pdargs == <<b.aref, b.asig, b.aoff, b.tbins, b.ta_arr>>
        tsargs == <<b.awl, b.tcal, b.T, b.PS>>
        scargs == <<b.awl, b.cpd_ts, b.cwl>>
        s1 == FirstShort(pdargs, ii)
        s2 == FirstShort(tsargs, ii)
        s3 == FirstShort(scargs, ii)
    IN  IF s1 # 0 THEN IndexErr(pdargs[s1], ii)
        ELSE LET r == opt_pd_calc(b.aref.v[ii], b.asig.v[ii], b.aoff.v[ii],
                                  tintrn, b.tbins.v[ii], b.ta_arr.v[ii])
             IN  IF r.kind = "raise" THEN r
                 ELSE IF s2 # 0 THEN IndexErr(tsargs[s2], ii)
                 ELSE LET t == opt_tempsal_corr("a", r.val[1], b.awl.v[ii],
                                                b.tcal.v[ii], b.T.v[ii],
                                                b.PS.v[ii])
                      IN  IF t.kind = "raise" THEN t
                          ELSE IF s3 # 0 THEN IndexErr(scargs[s3], ii)
                          ELSE opt_scatter_corr(t.val, b.awl.v[ii],
                                                b.cpd_ts.v[ii], b.cwl.v[ii],
                                                rwlngth)

\* lines 226-246: the loop from packet ii on; line 243 stores the row,
\* line 246 returns the array; an exception ends the call
RECURSIVE abs_loop(_, _, _, _, _)
abs_loop(b, npackets, ii, apd_ts_s, rwlngth) ==
    IF ii > npackets
    THEN [ret |-> Return(apd_ts_s), ii |-> ii, out |-> apd_ts_s]
    ELSE LET r == abs_packet(b, ii, rwlngth)
         IN  IF r.kind = "raise"
             THEN [ret |-> r, ii |-> ii, out |-> apd_ts_s]
             ELSE abs_loop(b, npackets, ii + 1,
                           [apd_ts_s EXCEPT ![ii] = r.val], rwlngth)

\* lines 207-246; line 226 is the array of zeros, line 130 the default of
\* rwlngth
abs_run(aref, asig, traw, awl, aoff, tcal, tbins, ta_arr, cpd_ts, cwl, T, PS, rwlngth) ==
    LET b == abs_reshape(aref, asig, traw, awl, aoff, tcal, tbins, ta_arr,
                         cpd_ts, cwl, T, PS)
        npackets == abs_npackets(b)
    IN  abs_loop(b, npackets, 1,
                 [i \in 1..npackets |->
                    [j \in 1..abs_nwavelengths(b) |-> Zero]],
                 sc_rwlngth(rwlngth))

opt_optical_absorption(aref, asig, traw, awl, aoff, tcal, tbins, ta_arr, cpd_ts, cwl, T, PS, rwlngth) ==
    abs_run(aref, asig, traw, awl, aoff, tcal, tbins, ta_arr, cpd_ts, cwl,
            T, PS, rwlngth).ret

(***************************************************************************)
(* Arguments of the calls to the two pipelines.  A packet is one of five   *)
(* kinds: 1 and 5 are valid with different counts, offsets, T and PS; 2 is *)
(* valid with a wavelength given to two decimals (400.04) and PS = 10; 3   *)
(* has an internal temperature below the bin grid; 4 has a wavelength      *)
(* (800) that is not in tscor.                                             *)
(***************************************************************************)
PacketKinds == 1..5

RefRow(k, nw) == Fill(nw, IF k = 5 THEN R(1) ELSE R(2))
SigRow(k, nw) == Fill(nw, IF k = 5 THEN R(3) ELSE R(1))
OffRow(k, nw) == Fill(nw, IF k = 5 THEN Q(3, 10) ELSE Q(1, 10))
TrawOf(k) == CASE k = 5 -> 47950 [] k = 3 -> 52184 [] OTHER -> 49879
WlRow(k, nw) ==
    [j \in 1..nw |->
        IF j > 1 THEN R(715)
        ELSE CASE k = 2 -> Q(40004, 100) [] k = 4 -> R(800) [] OTHER -> R(400)]
TOf(k) == IF k = 5 THEN R(25) ELSE R(10)
PSOf(k) == IF k = 2 THEN R(10) ELSE R(0)
\* the attenuation handed to opt_optical_absorption, and its wavelengths
CpdRow(k, nw) ==
    [j \in 1..nw |->
        CASE k = 5 -> Q(j, 10) [] k = 2 -> R(3 + j) [] OTHER -> R(4 + j)]
CwlRow(k, nw) ==
    [j \in 1..nw |-> QAdd(R(685 + 15 * j), IF k = 2 THEN Q(25, 100) ELSE Zero)]

\* which calibration arguments are given with one row per packet (TRUE) and
\* which once, without the packet dimension (FALSE)
Flags == [wl : BOOLEAN, off : BOOLEAN, tbins : BOOLEAN, tab : BOOLEAN]
AllBatched == [wl |-> TRUE, off |-> TRUE, tbins |-> TRUE, tab |-> TRUE]

\* a batch of Len(kinds) packets of nw channels
BeamBatch(kinds, nw, fl) ==
    LET N == Len(kinds)
    IN  [cref |-> Arr(2, [i \in 1..N |-> RefRow(kinds[i], nw)]),
         csig |-> Arr(2, [i \in 1..N |-> SigRow(kinds[i], nw)]),
         traw |-> Arr(1, [i \in 1..N |-> TrawOf(kinds[i])]),
         cwl |-> IF fl.wl
                 THEN Arr(2, [i \in 1..N |-> WlRow(kinds[i], nw)])
                 ELSE Arr(1, WlRow(kinds[1], nw)),
         coff |-> IF fl.off
                  THEN Arr(2, [i \in 1..N |-> OffRow(kinds[i], nw)])
                  ELSE Arr(1, OffRow(kinds[1], nw)),
         tcal |-> Arr(1, [i \in 1..N |-> R(20)]),
         tbins |-> IF fl.tbins
                   THEN Arr(2, [i \in 1..N |-> DevBins(MaxBins)])
                   ELSE Arr(1, DevBins(MaxBins)),
         tc_arr |-> IF fl.tab
                    THEN Arr(3, [i \in 1..N |-> DevTable(nw, MaxBins)])
                    ELSE Arr(2, DevTable(nw, MaxBins)),
         T |-> Arr(1, [i \in 1..N |-> TOf(kinds[i])]),
         PS |-> Arr(1, [i \in 1..N |-> PSOf(kinds[i])])]

\* one packet given without the packet dimension in any argument
BeamSingle(k, nw) ==
    [cref |-> Arr(1, RefRow(k, nw)), csig |-> Arr(1, SigRow(k, nw)),
     traw |-> Arr(0, TrawOf(k)), cwl |-> Arr(1, WlRow(k, nw)),
     coff |-> Arr(1, OffRow(k, nw)), tcal |-> Arr(0, R(20)),
     tbins |-> Arr(1, DevBins(MaxBins)),
     tc_arr |-> Arr(2, DevTable(nw, MaxBins)),
     T |-> Arr(0, TOf(k)), PS |-> Arr(0, PSOf(k))]

InitBeam ==
    /\ pc = "call"
    /\ fn = "opt_beam_attenuation"
    /\ \E nw \in 1..MaxChan :
         \/ \E N \in 1..MaxPackets : \E kinds \in [1..N -> PacketKinds] :
               args = BeamBatch(kinds, nw, AllBatched)
         \/ \E N \in 1..MaxPackets : \E kinds \in [1..N -> PacketKinds] :
               \E fl \in Flags : args = BeamBatch(kinds, nw, fl)
         \/ \E k \in PacketKinds : args = BeamSingle(k, nw)
    /\ ret = NoRet
    /\ loc = NoLoc
    /\ tscor = tscor_table

\* the call with the wavelength grid rounded in place, in the caller's array
Call_opt_beam_attenuation_in_place ==
    /\ pc = "call"
    /\ fn = "opt_beam_attenuation"
    /\ LET run == beam_run(args.cref, args.csig, args.traw, args.cwl,
                           args.coff, args.tcal, args.tbins, args.tc_arr,
                           args.T, args.PS)
       IN  /\ ret' = run.ret
           /\ loc' = [ii |-> run.ii, out |-> run.out]
    /\ args' = [args EXCEPT
                  !.cwl = IF @.nd = 2 THEN np_around(@)
                          ELSE Arr(1, [j \in 1..Len(@.v) |->
                                         np_around1(@.v[j])])]
    /\ pc' = "done"
    /\ UNCHANGED <<fn, tscor>>

Call_opt_beam_attenuation ==
    /\ pc = "call"
    /\ fn = "opt_beam_attenuation"
    /\ LET run == beam_run(args.cref, args.csig, args.traw, args.cwl,
                           args.coff, args.tcal, args.tbins, args.tc_arr,
                           args.T, args.PS)
       IN  /\ ret' = opt_beam_attenuation(args.cref, args.csig, args.traw,
                                          args.cwl, args.coff, args.tcal,
                                          args.tbins, args.tc_arr, args.T,
                                          args.PS)
           /\ loc' = [ii |-> run.ii, out |-> run.out]
    /\ pc' = "done"
    /\ UNCHANGED <<fn, args, tscor>>

\* the absorption arguments: the beam arguments under the absorption names,
\* the attenuation output, its wavelength grid and the reference wavelength
AbsOf(b, cpd_ts, cwl, rwlngth) ==
    [aref |-> b.cref, asig |-> b.csig, traw |-> b.traw, awl |-> b.cwl,
     aoff |-> b.coff, tcal |-> b.tcal, tbins |-> b.tbins,
     ta_arr |-> b.tc_arr, cpd_ts |-> cpd_ts, cwl |-> cwl,
     T |-> b.T, PS |-> b.PS, rwlngth |-> rwlngth]

AbsBatch(kinds, nw, fl, rwlngth) ==
    AbsOf(BeamBatch(kinds, nw, fl),
          Arr(2, [i \in 1..Len(kinds) |-> CpdRow(kinds[i], nw)]),
          Arr(2, [i \in 1..Len(kinds) |-> CwlRow(kinds[i], nw)]),
          rwlngth)

AbsSingle(k, nw, rwlngth) ==
    AbsOf(BeamSingle(k, nw), Arr(1, CpdRow(k, nw)), Arr(1, CwlRow(k, nw)),
          rwlngth)

InitAbs ==
    /\ pc = "call"
    /\ fn = "opt_optical_absorption"
    /\ \E nw \in 1..MaxChan, rwlngth \in RwlVals :
         \/ \E N \in 1..MaxPackets : \E kinds \in [1..N -> PacketKinds] :
               args = AbsBatch(kinds, nw, AllBatched, rwlngth)
         \/ \E N \in 1..MaxPackets : \E kinds \in [1..N -> PacketKinds] :
               \E fl \in Flags : args = AbsBatch(kinds, nw, fl, rwlngth)
         \/ \E k \in PacketKinds : args = AbsSingle(k, nw, rwlngth)
    /\ ret = NoRet
    /\ loc = NoLoc
    /\ tscor = tscor_table

Call_opt_optical_absorption ==
    /\ pc = "call"
    /\ fn = "opt_optical_absorption"
    /\ LET run == abs_run(args.aref, args.asig, args.traw, args.awl,
                          args.aoff, args.tcal, args.tbins, args.ta_arr,
                          args.cpd_ts, args.cwl, args.T, args.PS,
                          args.rwlngth)
       IN  /\ ret' = opt_optical_absorption(
                         args.aref, args.asig, args.traw, args.awl,
                         args.aoff, args.tcal, args.tbins, args.ta_arr,
                         args.cpd_ts, args.cwl, args.T, args.PS,
                         args.rwlngth)
           /\ loc' = [ii |-> run.ii, out |-> run.out]
    /\ pc' = "done"
    /\ UNCHANGED <<fn, args, tscor>>

InitPipe == InitBeam \/ InitAbs

NextPipe ==
    \/ Call_opt_beam_attenuation
    \/ Call_opt_optical_absorption

SpecPipe == InitPipe /\ [][NextPipe]_vars

BeamDone == pc = "done" /\ fn = "opt_beam_attenuation"
AbsDone == pc = "done" /\ fn = "opt_optical_absorption"
PipeDone == BeamDone \/ AbsDone

(***************************************************************************)
(* Properties of the two pipelines.                                        *)
(***************************************************************************)
IsBeam == fn = "opt_beam_attenuation"

\* the arguments of the finished call under common names
ArgRef == IF IsBeam THEN args.cref ELSE args.aref
ArgSig == IF IsBeam THEN args.csig ELSE args.asig
ArgWl  == IF IsBeam THEN args.cwl ELSE args.awl
ArgOff == IF IsBeam THEN args.coff ELSE args.aoff
ArgTab == IF IsBeam THEN args.tc_arr ELSE args.ta_arr

\* N: the number of packets in the raw data
NPackets == IF ArgRef.nd = 2 THEN Len(ArgRef.v) ELSE 1

RawBatched == ArgRef.nd = 2
WlBatched == ArgWl.nd = 2
CalBatched ==
    /\ ArgWl.nd = 2 /\ ArgOff.nd = 2 /\ args.tbins.nd = 2 /\ ArgTab.nd = 3
FullyBatched == RawBatched /\ CalBatched

\* C11 as stated: a call that returns has one output row per packet of
\* the raw data, whether the calibration arguments have one row per packet
\* or are given once.
C11_OneRowPerPacket ==
    (PipeDone /\ ret.kind = "return") => Len(ret.val) = NPackets

\* C11: with every argument given with N rows a call that returns has N
\* output rows.  The calibration arguments are not broadcast: the number of
\* output rows is the number of rows of the wavelength grid, 1 when the
\* grid is given once, whatever N is; and with a wavelength grid of more
\* than one row, offsets, bins or table given once make the call fail: if
\* the first packet passes its stages, the second raises an IndexError.
C11_RowsOfWavelengthGrid ==
    PipeDone =>
        /\ (FullyBatched /\ ret.kind = "return") => Len(ret.val) = NPackets
        /\ ret.kind = "return" =>
              Len(ret.val) = (IF WlBatched THEN Len(ArgWl.v) ELSE 1)
        /\ ~ WlBatched =>
              /\ loc.ii <= 2
              /\ loc.ii = 2 => (ret.kind = "return" /\ Len(ret.val) = 1)
        /\ (RawBatched /\ WlBatched /\ NPackets > 1 /\ ~ CalBatched) =>
              /\ ret.kind = "raise"
              /\ loc.ii <= 2
              /\ loc.ii = 2 => Raised("IndexError")

\* two packets, every argument with two rows: two output rows
C11_Witness ==
    /\ PipeDone /\ FullyBatched /\ NPackets = 2
    /\ ret.kind = "return" /\ Len(ret.val) = 2

\* two packets, the wavelength grid given once: one output row
C11_WitnessGridOnce ==
    /\ BeamDone /\ RawBatched /\ NPackets = 2 /\ ~ WlBatched
    /\ ret.kind = "return" /\ Len(ret.val) = 1

\* two packets, a two-row wavelength grid, the offsets given once: the
\* second packet raises IndexError
C11_WitnessOffsetsOnce ==
    /\ AbsDone /\ RawBatched /\ NPackets = 2 /\ WlBatched /\ ArgOff.nd = 1
    /\ Raised("IndexError") /\ ret.what = "axis0" /\ loc.ii = 2

\* packet i of an argument: its row i when the argument has the packet
\* dimension (full dimensions), the argument itself when given once
RowOf(x, i, full) == IF x.nd = full THEN x.v[i] ELSE x.v

Rounded(row) == [j \in 1..Len(row) |-> np_around1(row[j])]

GivenRwl == IF args.rwlngth = Omitted THEN R(715) ELSE args.rwlngth

\* the stages applied by hand to packet i, with wl as its wavelength row
BeamStages(i, wl) ==
    LET tintrn == opt_internal_temp(RowOf(args.traw, i, 1))
        r == opt_pd_calc(RowOf(args.cref, i, 2), RowOf(args.csig, i, 2),
                         RowOf(args.coff, i, 2), tintrn,
                         RowOf(args.tbins, i, 2), RowOf(args.tc_arr, i, 3))
    IN  IF r.kind = "raise" THEN r
        ELSE opt_tempsal_corr("c", r.val[1], wl, RowOf(args.tcal, i, 1),
                              RowOf(args.T, i, 1), RowOf(args.PS, i, 1))

AbsStages(i, wl) ==
    LET tintrn == opt_internal_temp(RowOf(args.traw, i, 1))
        r == opt_pd_calc(RowOf(args.aref, i, 2), RowOf(args.asig, i, 2),
                         RowOf(args.aoff, i, 2), tintrn,
                         RowOf(args.tbins, i, 2), RowOf(args.ta_arr, i, 3))
        t == opt_tempsal_corr("a", r.val[1], wl, RowOf(args.tcal, i, 1),
                              RowOf(args.T, i, 1), RowOf(args.PS, i, 1))
    IN  IF r.kind = "raise" THEN r
        ELSE IF t.kind = "raise" THEN t
        ELSE opt_scatter_corr(t.val, wl, RowOf(args.cpd_ts, i, 2),
                              RowOf(args.cwl, i, 2), GivenRwl)

\* the stages on the wavelength row as the caller gave it
StagesAsGiven(i) ==
    IF IsBeam THEN BeamStages(i, RowOf(args.cwl, i, 2))
    ELSE AbsStages(i, RowOf(args.awl, i, 2))

\* the stages on the wavelength row rounded to one decimal
StagesRounded(i) ==
    IF IsBeam THEN BeamStages(i, Rounded(RowOf(args.cwl, i, 2)))
    ELSE AbsStages(i, Rounded(RowOf(args.awl, i, 2)))

\* C14 as stated: every output row is what the stages give for the packet
\* with its wavelength row as supplied.
C14_RowIsStagesAsGiven ==
    (PipeDone /\ ret.kind = "return") =>
        \A i \in 1..Len(ret.val) :
            /\ StagesAsGiven(i).kind = "return"
            /\ ret.val[i] = StagesAsGiven(i).val

\* C14: a call returns when the stages pass for every packet of a fully
\* batched (or single, unbatched) input, and every output row i is the
\* composition of the stages on packet i,
\* internal temperature, first result of opt_pd_calc, opt_tempsal_corr and,
\* for the absorption, opt_scatter_corr with row i of the attenuation and of
\* its wavelengths and the reference wavelength, where the wavelength row of
\* the pipeline's own channel enters rounded to one decimal (the attenuation
\* wavelengths handed to opt_optical_absorption enter as given).
C14_RowIsStagesRounded ==
    PipeDone =>
        /\ ret.kind = "return" =>
              \A i \in 1..Len(ret.val) :
                  /\ StagesRounded(i).kind = "return"
                  /\ ret.val[i] = StagesRounded(i).val
        /\ ((FullyBatched \/ ~ RawBatched)
              /\ \A i \in 1..NPackets : StagesRounded(i).kind = "return") =>
              (ret.kind = "return" /\ Len(ret.val) = NPackets)

\* a packet with wavelength 400.04: the pipeline looks up 400.0 and returns,
\* the stages on 400.04 raise KeyError
C14_Witness ==
    /\ PipeDone /\ ret.kind = "return" /\ FullyBatched /\ NPackets = 2
    /\ ArgWl.v[2][1] = Q(40004, 100)
    /\ StagesAsGiven(2).kind = "raise"
    /\ StagesAsGiven(2).exc = "KeyError"
    /\ ret.val[2] = StagesRounded(2).val

\* the absorption of a packet whose attenuation wavelengths have two
\* decimals, with the scattering correction applied
C14_WitnessAbs ==
    /\ AbsDone /\ ret.kind = "return" /\ FullyBatched /\ NPackets = 2
    /\ args.cwl.v[2][1] = Q(70025, 100)
    /\ Len(ret.val[2]) = 2
    /\ ret.val[2] = StagesRounded(2).val

\* the number of packets the loop goes through: the rows of the wavelength
\* grid once it has two dimensions
LoopPackets == IF WlBatched THEN Len(ArgWl.v) ELSE 1

\* an argument given once has no row k
RowMissing(k) == WlBatched /\ k > 1 /\ ~ CalBatched

\* packet k fails in a stage, or one of the arguments has no row k
PacketFails(k) == StagesRounded(k).kind = "raise" \/ RowMissing(k)

\* C13: if a stage fails for a packet k of the batch the loop goes through,
\* the call raises the error of the first such packet and returns nothing,
\* although the local output array holds the rows of the packets before k;
\* a call returns an output only if every packet passed every stage.
C13_NoPartialResult ==
    PipeDone =>
        LET F == {k \in 1..LoopPackets : PacketFails(k)}
        IN  /\ F # {} =>
                 /\ ret.kind = "raise" /\ ret.val = <<>>
                 /\ loc.ii = SetMin(F)
                 /\ RowMissing(loc.ii) => Raised("IndexError")
                 /\ ~ RowMissing(loc.ii) => ret = StagesRounded(loc.ii)
                 /\ \A i \in 1..(loc.ii - 1) :
                        loc.out[i] = StagesRounded(i).val
            /\ ret.kind = "return" =>
                 /\ F = {}
                 /\ \A k \in 1..Len(ret.val) :
                        StagesRounded(k).kind = "return"

\* two packets, the second with a wavelength that is not in tscor: KeyError,
\* nothing returned, the first row computed and dropped
C13_Witness ==
    /\ PipeDone /\ FullyBatched /\ NPackets = 2
    /\ Raised("KeyError") /\ ret.val = <<>>
    /\ loc.ii = 2
    /\ StagesRounded(1).kind = "return"
    /\ loc.out[1] = StagesRounded(1).val
    /\ loc.out[1] # loc.out[2]

\* what the call of the same function returns on the arguments a
Rerun(a) ==
    IF IsBeam
    THEN opt_beam_attenuation(a.cref, a.csig, a.traw, a.cwl, a.coff, a.tcal,
                              a.tbins, a.tc_arr, a.T, a.PS)
    ELSE opt_optical_absorption(a.aref, a.asig, a.traw, a.awl, a.aoff,
                                a.tcal, a.tbins, a.ta_arr, a.cpd_ts, a.cwl,
                                a.T, a.PS, a.rwlngth)

ArrayFields == DOMAIN args \ {"rwlngth"}

Perms(n) == {p \in [1..n -> 1..n] : \A i, j \in 1..n : p[i] = p[j] => i = j}

\* the rows of every argument rearranged: new row i is old row p[i]
Permuted(p) ==
    [f \in DOMAIN args |->
        IF f \in ArrayFields
        THEN Arr(args[f].nd, [i \in 1..Len(p) |-> args[f].v[p[i]]])
        ELSE args[f]]

\* one packet of kind k with as many channels as the packets of the call
OtherPacket(k) ==
    LET nw == Len(ArgRef.v[1])
    IN  IF IsBeam THEN BeamBatch(<<k>>, nw, AllBatched)
        ELSE AbsBatch(<<k>>, nw, AllBatched, args.rwlngth)

\* row j of every argument replaced by the packet of kind k
Replaced(j, k) ==
    [f \in DOMAIN args |->
        IF f \in ArrayFields
        THEN Arr(args[f].nd, [args[f].v EXCEPT ![j] = OtherPacket(k)[f].v[1]])
        ELSE args[f]]

\* C12: for a fully batched input on which the call returns, rearranging
\* the rows of all arguments by a permutation rearranges the output rows in
\* the same way, and replacing the inputs of packet j by those of another
\* valid packet leaves every output row i # j as it was.
C12_PacketsIndependent ==
    (PipeDone /\ FullyBatched /\ ret.kind = "return") =>
        /\ \A p \in Perms(NPackets) :
              /\ Rerun(Permuted(p)).kind = "return"
              /\ Rerun(Permuted(p)).val =
                     [i \in 1..NPackets |-> ret.val[p[i]]]
        /\ \A j \in 1..NPackets : \A k \in PacketKinds :
              LET r == Rerun(Replaced(j, k))
              IN  r.kind = "return" =>
                     \A i \in 1..NPackets \ {j} : r.val[i] = ret.val[i]

\* two different packets: the rows differ, exchanging the packets exchanges
\* the rows, and replacing packet 1 changes row 1 and not row 2
C12_Witness ==
    /\ PipeDone /\ FullyBatched /\ ret.kind = "return"
    /\ NPackets = 2
    /\ ret.val[1] # ret.val[2]
    /\ ArgOff.v[1] # ArgOff.v[2]
    /\ Rerun(Permuted(<<2, 1>>)).val = <<ret.val[2], ret.val[1]>>
    /\ \E k \in PacketKinds :
          /\ Rerun(Replaced(1, k)).kind = "return"
          /\ Rerun(Replaced(1, k)).val[1] # ret.val[1]
          /\ Rerun(Replaced(1, k)).val[2] = ret.val[2]

(***************************************************************************)
(* Calls to opt_internal_temp, and a second call of a function with the    *)
(* arguments and the table as the first call left them.                    *)
(***************************************************************************)
InitTemp ==
    /\ pc = "call"
    /\ fn = "opt_internal_temp"
    /\ \E traw \in DOMAIN InternalTempCenti : args = [traw |-> traw]
    /\ ret = NoRet
    /\ loc = NoLoc
    /\ tscor = tscor_table

Call_opt_internal_temp ==
    /\ pc = "call"
    /\ fn = "opt_internal_temp"
    /\ ret' = Return(opt_internal_temp(args.traw))
    /\ pc' = "done"
    /\ UNCHANGED <<fn, args, loc, tscor>>

\* the call of function f on the argument record a
Apply(f, a) ==
    CASE f = "opt_internal_temp" -> Return(opt_internal_temp(a.traw))
      [] f = "opt_pd_calc" ->
            opt_pd_calc(a.ref, a.sig, a.offset, a.tintrn, a.tbins, a.tarray)
      [] f = "opt_tempsal_corr" ->
            opt_tempsal_corr(a.channel, a.pd, a.wlngth, a.tcal, a.T, a.PS)
      [] f = "opt_scatter_corr" ->
            opt_scatter_corr(a.apd_ts, a.awlngth, a.cpd_ts, a.cwlngth,
                             sc_rwlngth(a.rwlngth))
      [] f = "opt_beam_attenuation" ->
            opt_beam_attenuation(a.cref, a.csig, a.traw, a.cwl, a.coff,
                                 a.tcal, a.tbins, a.tc_arr, a.T, a.PS)
      [] f = "opt_optical_absorption" ->
            opt_optical_absorption(a.aref, a.asig, a.traw, a.awl, a.aoff,
                                   a.tcal, a.tbins, a.ta_arr, a.cpd_ts,
                                   a.cwl, a.T, a.PS, a.rwlngth)

\* the caller calls the function once more with the same argument objects
Call_again ==
    /\ pc = "done"
    /\ ret' = Apply(fn, args)
    /\ pc' = "again"
    /\ UNCHANGED <<fn, args, loc, tscor>>

InitOptaa ==
    InitTemp \/ InitPd \/ InitTs \/ InitSc \/ InitBeam \/ InitAbs

NextOptaa ==
    \/ Call_opt_internal_temp
    \/ Call_opt_pd_calc
    \/ Call_opt_tempsal_corr
    \/ Call_opt_scatter_corr
    \/ Call_opt_beam_attenuation
    \/ Call_opt_optical_absorption
    \/ Call_again

SpecOptaa == InitOptaa /\ [][NextOptaa]_vars

C17_WitnessFailing ==
    /\ pc = "again" /\ fn = "opt_optical_absorption"
    /\ Raised("KeyError")
    /\ tscor = tscor_table

(***************************************************************************)
(* The applied scattering correction.                                      *)
(***************************************************************************)
\* the correction is applied: aref > 0 and cref - aref > 0.02
ScApplied ==
    /\ ScReturned
    /\ QLt(Zero, args.apd_ts[loc.idx])
    /\ QLt(ref_scatter_leakage_min,
           QSub(loc.cintrp[loc.idx], args.apd_ts[loc.idx]))

\* C21: whenever opt_scatter_corr applies the correction (aref > 0 and
\* cref - aref > 0.02), the scattering ratio is strictly positive, the
\* corrected absorption at the reference index is zero (in exact
\* arithmetic), and at every index w the output is at most the input exactly
\* when cintrp[w] >= apd_ts[w].
C21_AppliedCorrection ==
    ScApplied =>
        /\ QLt(Zero, loc.scat_ratio)
        /\ ret.val[loc.idx] = Zero
        /\ \A w \in 1..Len(args.apd_ts) :
             QLe(ret.val[w], args.apd_ts[w])
                 <=> QLe(args.apd_ts[w], loc.cintrp[w])

\* the correction applied on two wavelengths: at the reference the output is
\* zero, at the other the attenuation lies below the absorption and the
\* output exceeds the input
C21_Witness ==
    /\ ScApplied
    /\ Len(args.apd_ts) = 2
    /\ \E w \in 1..2 :
         /\ w # loc.idx
         /\ QLt(loc.cintrp[w], args.apd_ts[w])
         /\ QLt(args.apd_ts[w], ret.val[w])

\* the correction applied, lowering the absorption away from the reference
C21_WitnessLowered ==
    /\ ScApplied
    /\ \E w \in 1..Len(args.apd_ts) :
         /\ w # loc.idx
         /\ QLt(args.apd_ts[w], loc.cintrp[w])
         /\ QLt(ret.val[w], args.apd_ts[w])

(***************************************************************************)
(* The attenuation interpolated onto the absorption wavelengths.           *)
(***************************************************************************)
\* a call whose arrays pass both length checks
ScLengthsMatch ==
    /\ ScDone
    /\ Len(args.apd_ts) = Len(args.awlngth)
    /\ Len(args.cpd_ts) = Len(args.cwlngth)

\* y lies on the line through (xp[j], fp[j]) and (xp[j+1], fp[j+1]) at x
OnSegment(x, y, xp, fp, j) ==
    QMul(QSub(y, fp[j]), QSub(xp[j + 1], xp[j]))
        = QMul(QSub(fp[j + 1], fp[j]), QSub(x, xp[j]))

\* C22: in opt_scatter_corr the attenuation values are interpolated
\* piecewise-linearly onto the absorption wavelengths, without extrapolation
\* and without failure: an absorption wavelength below the smallest
\* attenuation wavelength receives the first attenuation value, one above
\* the largest receives the last, and one equal to an attenuation wavelength
\* receives exactly that wavelength's attenuation value.
C22_InterpolatedAttenuation ==
    ScLengthsMatch =>
        /\ ret.kind = "return"
        /\ DOMAIN loc.cintrp = 1..Len(args.awlngth)
        /\ \A w \in 1..Len(args.awlngth) :
             LET x  == args.awlngth[w]
                 y  == loc.cintrp[w]
                 xp == args.cwlngth
                 fp == args.cpd_ts
                 n  == Len(xp)
             IN  /\ QLt(x, xp[1]) => y = fp[1]
                 /\ QLt(xp[n], x) => y = fp[n]
                 /\ \A j \in 1..n : x = xp[j] => y = fp[j]
                 /\ \A j \in 1..(n - 1) :
                      (QLt(xp[j], x) /\ QLt(x, xp[j + 1]))
                          => OnSegment(x, y, xp, fp, j)
                 /\ \E j \in 1..n : QLe(fp[j], y)
                 /\ \E j \in 1..n : QLe(y, fp[j])

\* 705 lies below the grid 715, 730 and receives the first attenuation
\* value, which differs from the second; 715 is on the grid
C22_Witness ==
    /\ ScReturned
    /\ args.awlngth = <<R(705), R(715)>>
    /\ args.cwlngth = <<R(715), R(730)>>
    /\ args.cpd_ts[1] # args.cpd_ts[2]
    /\ loc.cintrp = <<args.cpd_ts[1], args.cpd_ts[1]>>

\* 715 lies above the grid 700 and receives the last attenuation value
C22_WitnessAbove ==
    /\ ScReturned
    /\ args.cwlngth = <<R(700)>>
    /\ \E w \in 1..Len(args.awlngth) :
         args.awlngth[w] = R(715) /\ loc.cintrp[w] = args.cpd_ts[1]

\* 705 lies strictly between 700 and 715, whose attenuation values differ
C22_WitnessBetween ==
    /\ ScReturned
    /\ Len(args.cwlngth) >= 2
    /\ args.cwlngth[1] = R(700) /\ args.cwlngth[2] = R(715)
    /\ args.cpd_ts[1] # args.cpd_ts[2]
    /\ \E w \in 1..Len(args.awlngth) :
         /\ args.awlngth[w] = R(705)
         /\ loc.cintrp[w] # args.cpd_ts[1]
         /\ loc.cintrp[w] # args.cpd_ts[2]

=============================================================================
